---- MODULE Spec2Model ----
(***************************************************************************)
(* A model of skew/awsclient.py: the AWSClient wrapper (credential         *)
(* resolution in __init__, session and client creation in _create_client,  *)
(* the operation invoker call) and the helpers get_awsclient and           *)
(* json_encoder.                                                           *)
(*                                                                         *)
(* The provider SDK (boto3 / botocore), the placebo harness and jmespath   *)
(* are external collaborators.  Every call the wrapper makes on them is    *)
(* recorded in an event log (sdk for construction, events for call), and   *)
(* their answers are inputs drawn from small sets.                         *)
(*                                                                         *)
(* Python values of mixed type are modelled by strings (None is the        *)
(* string "None") or by records of one fixed shape.  Exceptions are the    *)
(* subclasses of Exception; KeyboardInterrupt and SystemExit, which no     *)
(* SDK operation raises, are outside the model.                            *)
(***************************************************************************)
EXTENDS Integers, Sequences, FiniteSets, TLC

(***************************************************************************)
(* Bounds                                                                  *)
(***************************************************************************)
\* attempts of the operation one call may make before the model stops
MaxAttempts == 3
\* pages one paginated call may fetch
MaxPages == 2

(***************************************************************************)
(* Python values                                                           *)
(***************************************************************************)
None == "None"
\* a keyword argument that was not passed, a key that is not in a mapping
Absent == "<absent>"

\* Python truthiness of None and of strings: None and '' are false
Truthy(x) == x \notin {None, ""}

(***************************************************************************)
(* Account configuration: config['accounts'][account_id] is a mapping that *)
(* optionally holds 'credentials', 'profile', 'role_arn', 'external_id'.   *)
(***************************************************************************)
KnownAccount == "123456789012"
UnknownAccount == "000000000000"
AccountIds == {KnownAccount, UnknownAccount}

ConfigKeys == {"credentials", "profile", "role_arn", "external_id"}

ConfigValue(k) ==
  CASE k = "credentials" -> "CONFIG_KEYS"
    [] k = "profile"     -> "dev"
    [] k = "role_arn"    -> "arn:aws:iam::123456789012:role/skew"
    [] k = "external_id" -> "ext-1"

\* every well-formed account record: any subset of the four keys
AccountRecords == { [k \in S |-> ConfigValue(k)] : S \in SUBSET ConfigKeys }

\* a configuration holds an entry for KnownAccount only
Configs == { [accounts |-> [a \in {KnownAccount} |-> r]] : r \in AccountRecords }

\* dict.get(key): the value, or None when the key is missing
DictGet(d, k) == IF k \in DOMAIN d THEN d[k] ELSE None

(***************************************************************************)
(* Events of the SDK seen during construction                              *)
(***************************************************************************)
Ev(name, a, b) == [ev |-> name, a |-> a, b |-> b]

\* the temporary credentials sts.assume_role returns
AssumedKeys == "ASSUMED_KEYS"

\* the client handle: session.client(service_name, config=..., region_name=...)
NoClient == [created |-> FALSE, service |-> None, region |-> None]

NoSelf ==
  [config |-> [accounts |-> <<>>], service_name |-> None, region_name |-> None,
   account_id |-> None, has_credentials |-> FALSE, aws_creds |-> None,
   profile |-> None, external_id |-> None, role_arn |-> None,
   placebo |-> None, placebo_dir |-> None, placebo_mode |-> None,
   client |-> NoClient]

(***************************************************************************)
(* AWSClient._create_client                                                *)
(*   sts_ok: whether the security-token service grants the role.  botocore *)
(*   validates RoleArn before sending, so a call with RoleArn=None fails.  *)
(***************************************************************************)
OpenSession(self, sts_ok) ==
  IF Truthy(self.aws_creds)
    THEN [status |-> "ok", error |-> None,
          sdk |-> << Ev("boto3.Session", "credentials", self.aws_creds) >>]
  ELSE IF Truthy(self.profile)
    THEN [status |-> "ok", error |-> None,
          sdk |-> << Ev("boto3.Session", "profile_name", self.profile) >>]
  ELSE
    LET call == IF Truthy(self.external_id)
                  THEN Ev("sts.assume_role", self.role_arn, self.external_id)
                  ELSE Ev("sts.assume_role", self.role_arn, Absent)
    IN IF self.role_arn = None
         THEN [status |-> "raised", error |-> "ParamValidationError",
               sdk |-> << Ev("boto3.client", "sts", None), call >>]
       ELSE IF ~sts_ok
         THEN [status |-> "raised", error |-> "ClientError",
               sdk |-> << Ev("boto3.client", "sts", None), call >>]
       ELSE [status |-> "ok", error |-> None,
             sdk |-> << Ev("boto3.client", "sts", None), call,
                        Ev("boto3.Session", "credentials", AssumedKeys) >>]

\* a slip: the harness is attached without a directory (if self.placebo:)
AttachPlacebo_IgnoresDir(self) ==
  IF Truthy(self.placebo)
    THEN << Ev("placebo.attach", self.placebo, self.placebo_dir) >>
         \o (IF self.placebo_mode = "record"
               THEN << Ev("pill.record", None, None) >>
             ELSE IF self.placebo_mode = "playback"
               THEN << Ev("pill.playback", None, None) >>
             ELSE << >>)
    ELSE << >>

AttachPlacebo(self) ==
  IF Truthy(self.placebo) /\ Truthy(self.placebo_dir)
    THEN << Ev("placebo.attach", self.placebo, self.placebo_dir) >>
         \o (IF self.placebo_mode = "record"
               THEN << Ev("pill.record", None, None) >>
             ELSE IF self.placebo_mode = "playback"
               THEN << Ev("pill.playback", None, None) >>
             ELSE << >>)
    ELSE << >>

ClientHandle(self) ==
  [created |-> TRUE, service |-> self.service_name,
   region |-> IF Truthy(self.region_name) THEN self.region_name ELSE None]

create_client(self, sts_ok) ==
  LET s == OpenSession(self, sts_ok)
  IN IF s.status = "raised"
       THEN [status |-> "raised", error |-> s.error, client |-> NoClient, sdk |-> s.sdk]
       ELSE [status |-> "ok", error |-> None, client |-> ClientHandle(self),
             sdk |-> s.sdk \o AttachPlacebo(self)
                     \o << Ev("session.client", ClientHandle(self).service,
                              ClientHandle(self).region) >>]

(***************************************************************************)
(* AWSClient.__init__                                                      *)
(*   kwargs: [config_given, config, aws_creds, placebo, placebo_dir,       *)
(*            placebo_mode]; aws_creds, placebo, placebo_dir are None when *)
(*            not passed, placebo_mode is Absent when not passed.          *)
(*   global_config: what skew.config.get_config() returns.                 *)
(***************************************************************************)
get_config(global_config) == global_config

\* a slip: a missing account entry is read as an empty record (accounts.get)
ResolveCredentials_MissingAccountEmpty(config, account_id, aws_creds_arg) ==
  LET acct == IF account_id \in DOMAIN config.accounts
                THEN config.accounts[account_id] ELSE << >>
      creds == IF aws_creds_arg # None THEN aws_creds_arg
               ELSE DictGet(acct, "credentials")
  IN IF creds # None
       THEN [status |-> "ok", aws_creds |-> creds,
             profile |-> None, role_arn |-> None, external_id |-> None]
     ELSE IF "profile" \in DOMAIN acct
       THEN [status |-> "ok", aws_creds |-> None,
             profile |-> acct["profile"], role_arn |-> None, external_id |-> None]
     ELSE IF "role_arn" \in DOMAIN acct
       THEN [status |-> "ok", aws_creds |-> None, profile |-> None,
             role_arn |-> acct["role_arn"],
             external_id |-> DictGet(acct, "external_id")]
     ELSE [status |-> "ok", aws_creds |-> None,
           profile |-> None, role_arn |-> None, external_id |-> None]

\* a slip: every key of the account record is read on its own (acct.get(key))
ResolveCredentials_ReadsEveryKey(config, account_id, aws_creds_arg) ==
  IF aws_creds_arg = None /\ account_id \notin DOMAIN config.accounts
    THEN [status |-> "KeyError", aws_creds |-> None,
          profile |-> None, role_arn |-> None, external_id |-> None]
  ELSE
    LET acct == IF account_id \in DOMAIN config.accounts
                  THEN config.accounts[account_id] ELSE << >>
    IN [status |-> "ok",
        aws_creds |-> IF aws_creds_arg # None THEN aws_creds_arg
                      ELSE DictGet(acct, "credentials"),
        profile |-> DictGet(acct, "profile"),
        role_arn |-> DictGet(acct, "role_arn"),
        external_id |-> DictGet(acct, "external_id")]

ResolveCredentials(config, account_id, aws_creds_arg) ==
  IF aws_creds_arg # None
    THEN [status |-> "ok", aws_creds |-> aws_creds_arg,
          profile |-> None, role_arn |-> None, external_id |-> None]
  ELSE IF account_id \notin DOMAIN config.accounts
    THEN [status |-> "KeyError", aws_creds |-> None,
          profile |-> None, role_arn |-> None, external_id |-> None]
  ELSE
    LET acct == config.accounts[account_id]
        creds == DictGet(acct, "credentials")
    IN IF creds # None
         THEN [status |-> "ok", aws_creds |-> creds,
               profile |-> None, role_arn |-> None, external_id |-> None]
       ELSE IF "profile" \in DOMAIN acct
         THEN [status |-> "ok", aws_creds |-> None,
               profile |-> acct["profile"], role_arn |-> None, external_id |-> None]
       ELSE IF "role_arn" \in DOMAIN acct
         THEN [status |-> "ok", aws_creds |-> None, profile |-> None,
               role_arn |-> acct["role_arn"],
               external_id |-> IF "external_id" \in DOMAIN acct
                                 THEN acct["external_id"] ELSE None]
       ELSE [status |-> "ok", aws_creds |-> None,
             profile |-> None, role_arn |-> None, external_id |-> None]

AWSClient_init(service_name, region_name, account_id, kwargs, global_config, sts_ok) ==
  LET config == IF kwargs.config_given THEN kwargs.config
                                       ELSE get_config(global_config)
      r == ResolveCredentials(config, account_id, kwargs.aws_creds)
      self0 == [config |-> config, service_name |-> service_name,
                region_name |-> region_name, account_id |-> account_id,
                has_credentials |-> FALSE, aws_creds |-> r.aws_creds,
                profile |-> r.profile, external_id |-> r.external_id,
                role_arn |-> r.role_arn,
                placebo |-> kwargs.placebo, placebo_dir |-> kwargs.placebo_dir,
                placebo_mode |-> IF kwargs.placebo_mode = Absent THEN "record"
                                 ELSE kwargs.placebo_mode,
                client |-> NoClient]
  IN IF r.status = "KeyError"
       THEN [status |-> "raised", error |-> "KeyError", self |-> NoSelf, sdk |-> << >>]
       ELSE LET c == create_client(self0, sts_ok)
            IN IF c.status = "raised"
                 THEN [status |-> "raised", error |-> c.error, self |-> NoSelf,
                       sdk |-> c.sdk]
                 ELSE [status |-> "ok", error |-> None,
                       self |-> [self0 EXCEPT !.client = c.client], sdk |-> c.sdk]

(***************************************************************************)
(* get_awsclient                                                           *)
(***************************************************************************)
\* a slip: the empty region is handed on as it is
get_awsclient_KeepsEmptyRegion(service_name, region_name, account_id, kwargs, global_config, sts_ok) ==
  AWSClient_init(service_name, region_name, account_id, kwargs, global_config, sts_ok)

get_awsclient(service_name, region_name, account_id, kwargs, global_config, sts_ok) ==
  AWSClient_init(service_name, IF region_name = "" THEN None ELSE region_name,
                 account_id, kwargs, global_config, sts_ok)

(***************************************************************************)
(* Response data: JSON-like values of one record shape                     *)
(*   map:  a mapping that holds the key 'Items' (has) or no key at all     *)
(*   list: a sequence of items, str: one item, null: None                  *)
(***************************************************************************)
MapVal(has, items) == [t |-> "map", has |-> has, v |-> items]
ListVal(items) == [t |-> "list", has |-> FALSE, v |-> items]
StrVal(s) == [t |-> "str", has |-> FALSE, v |-> << s >>]
NullVal == [t |-> "null", has |-> FALSE, v |-> << >>]
\* the variable result before call has returned
NoResult == [t |-> "unset", has |-> FALSE, v |-> << >>]
\* data = {}
EmptyMap == MapVal(FALSE, << >>)

(***************************************************************************)
(* jmespath: compile and search for the expressions the model uses         *)
(***************************************************************************)
ValidQueries == {"Items", "Items[-1]"}
\* an expression jmespath.compile rejects
BadQuery == "Items["
\* every value the query argument takes; None and '' mean no query
Queries == {None, ""} \cup ValidQueries \cup {BadQuery}

compile_ok(q) == q \in ValidQueries

search(q, d) ==
  LET field == IF d.t = "map" /\ d.has THEN ListVal(d.v) ELSE NullVal
  IN CASE q = "Items" -> field
       [] q = "Items[-1]" ->
            IF field.t = "list" /\ Len(field.v) > 0
              THEN StrVal(field.v[Len(field.v)]) ELSE NullVal
       [] OTHER -> NullVal

(***************************************************************************)
(* What one invocation of the operation, or one page request, answers      *)
(*   ok:   the operation returned data                                     *)
(*   page: one page of a paginated operation; more = a next page follows   *)
(*   err:  an exception of class cls was raised; msg is the set of the     *)
(*         marker substrings that str(e) contains                          *)
(***************************************************************************)
Ok(d) == [kind |-> "ok", cls |-> None, msg |-> {}, data |-> d, more |-> FALSE]
Page(items, more) ==
  [kind |-> "page", cls |-> None, msg |-> {}, data |-> ListVal(items), more |-> more]
Err(cls, msg) == [kind |-> "err", cls |-> cls, msg |-> msg, data |-> NullVal, more |-> FALSE]

Messages ==
  { {}, {"Throttling"}, {"AccessDenied"}, {"NoSuchTagSet"}, {"Topic does not exist"},
    {"Throttling", "AccessDenied"}, {"Throttling", "NoSuchTagSet"},
    {"Throttling", "Topic does not exist"} }

OpOutcomes ==
  { Ok(EmptyMap), Ok(MapVal(TRUE, << "a", "b" >>)) }
  \cup { Err("ClientError", m) : m \in Messages }
  \cup { Err("Exception", m) : m \in { {}, {"Throttling"}, {"AccessDenied"} } }

PageOutcomes(last) ==
  { Page(i, m) : i \in { << "a" >>, << "b" >> }, m \in (IF last THEN {FALSE} ELSE BOOLEAN) }
  \cup { Err("ClientError", {"Throttling"}), Err("ClientError", {}), Err("Exception", {}) }

\* sub in str(e)
InStr(sub, e) == sub \in e.msg

(***************************************************************************)
(* The operations of the client; can_paginate is a property of the name    *)
(***************************************************************************)
Ops == {"get_thing", "list_things"}
can_paginate(op_name) == op_name = "list_things"

\* the keyword parameters forwarded to the operation
Params == {"Name=x"}

(***************************************************************************)
(* One iteration of the retry loop of call, given what the operation did  *)
(***************************************************************************)
\* a slip: the throttling branch retries at once, without time.sleep(1)
LoopBody_RetryWithoutSleep(o, data) ==
  IF o.kind = "ok"
    THEN [data |-> o.data, done |-> TRUE, sleep |-> FALSE]
  ELSE IF o.cls = "ClientError"
    THEN IF InStr("Throttling", o)
           THEN [data |-> data, done |-> FALSE, sleep |-> FALSE]
         ELSE IF InStr("AccessDenied", o) \/ InStr("NoSuchTagSet", o)
                 \/ InStr("Topic does not exist", o)
           THEN [data |-> data, done |-> TRUE, sleep |-> FALSE]
         ELSE [data |-> data, done |-> FALSE, sleep |-> FALSE]
  ELSE [data |-> data, done |-> TRUE, sleep |-> FALSE]

\* a slip: the branch for 'Topic does not exist' is missing
LoopBody_TopicNotHandled(o, data) ==
  IF o.kind = "ok"
    THEN [data |-> o.data, done |-> TRUE, sleep |-> FALSE]
  ELSE IF o.cls = "ClientError"
    THEN IF InStr("Throttling", o)
           THEN [data |-> data, done |-> FALSE, sleep |-> TRUE]
         ELSE IF InStr("AccessDenied", o) \/ InStr("NoSuchTagSet", o)
           THEN [data |-> data, done |-> TRUE, sleep |-> FALSE]
         ELSE [data |-> data, done |-> FALSE, sleep |-> FALSE]
  ELSE [data |-> data, done |-> TRUE, sleep |-> FALSE]

\* a slip: a swallowed AccessDenied leaves None instead of the empty mapping
LoopBody_AccessDeniedGivesNone(o, data) ==
  IF o.kind = "ok"
    THEN [data |-> o.data, done |-> TRUE, sleep |-> FALSE]
  ELSE IF o.cls = "ClientError"
    THEN IF InStr("Throttling", o)
           THEN [data |-> data, done |-> FALSE, sleep |-> TRUE]
         ELSE IF InStr("AccessDenied", o)
           THEN [data |-> NullVal, done |-> TRUE, sleep |-> FALSE]
         ELSE IF InStr("NoSuchTagSet", o) \/ InStr("Topic does not exist", o)
           THEN [data |-> data, done |-> TRUE, sleep |-> FALSE]
         ELSE [data |-> data, done |-> FALSE, sleep |-> FALSE]
  ELSE [data |-> data, done |-> TRUE, sleep |-> FALSE]

\* a slip: the ignorable substrings are tested before 'Throttling'
LoopBody_IgnorableFirst(o, data) ==
  IF o.kind = "ok"
    THEN [data |-> o.data, done |-> TRUE, sleep |-> FALSE]
  ELSE IF o.cls = "ClientError"
    THEN IF InStr("AccessDenied", o) \/ InStr("NoSuchTagSet", o)
            \/ InStr("Topic does not exist", o)
           THEN [data |-> data, done |-> TRUE, sleep |-> FALSE]
         ELSE IF InStr("Throttling", o)
           THEN [data |-> data, done |-> FALSE, sleep |-> TRUE]
         ELSE [data |-> data, done |-> FALSE, sleep |-> FALSE]
  ELSE [data |-> data, done |-> TRUE, sleep |-> FALSE]

\* a slip: one except clause for every exception type (except Exception as e)
LoopBody_AnyTypeThrottles(o, data) ==
  IF o.kind = "ok"
    THEN [data |-> o.data, done |-> TRUE, sleep |-> FALSE]
  ELSE IF InStr("Throttling", o)
    THEN [data |-> data, done |-> FALSE, sleep |-> TRUE]
  ELSE IF o.cls = "ClientError"
    THEN IF InStr("AccessDenied", o) \/ InStr("NoSuchTagSet", o)
            \/ InStr("Topic does not exist", o)
           THEN [data |-> data, done |-> TRUE, sleep |-> FALSE]
           ELSE [data |-> data, done |-> FALSE, sleep |-> FALSE]
  ELSE [data |-> data, done |-> TRUE, sleep |-> FALSE]

LoopBody(o, data) ==
  IF o.kind = "ok"
    THEN [data |-> o.data, done |-> TRUE, sleep |-> FALSE]
  ELSE IF o.cls = "ClientError"
    THEN IF InStr("Throttling", o)
           THEN [data |-> data, done |-> FALSE, sleep |-> TRUE]
         ELSE IF InStr("AccessDenied", o)
           THEN [data |-> data, done |-> TRUE, sleep |-> FALSE]
         ELSE IF InStr("NoSuchTagSet", o)
           THEN [data |-> data, done |-> TRUE, sleep |-> FALSE]
         ELSE IF InStr("Topic does not exist", o)
           THEN [data |-> data, done |-> TRUE, sleep |-> FALSE]
         ELSE [data |-> data, done |-> FALSE, sleep |-> FALSE]
  ELSE [data |-> data, done |-> TRUE, sleep |-> FALSE]

(***************************************************************************)
(* PageIterator.build_full_result: the items of all pages, in order        *)
(***************************************************************************)
RECURSIVE ConcatItems(_)
ConcatItems(pages) ==
  IF pages = << >> THEN << >>
  ELSE pages[1].data.v \o ConcatItems(Tail(pages))

\* a slip: the result of the last page replaces the aggregate
build_full_result_LastPageOnly(pages) == MapVal(TRUE, pages[Len(pages)].data.v)

build_full_result(pages) == MapVal(TRUE, ConcatItems(pages))

(***************************************************************************)
(* The end of call: the query, when one was given, is applied to data      *)
(***************************************************************************)
\* a slip: the query is skipped when data is empty (if query and data)
ApplyQuery_SkippedOnEmpty(q, data) ==
  IF Truthy(q) /\ data # EmptyMap THEN search(q, data) ELSE data

ApplyQuery(q, data) == IF Truthy(q) THEN search(q, data) ELSE data

(***************************************************************************)
(* json_encoder: values are records [type, dt, tz, text]                   *)
(*   datetime: dt = <<year, month, day, hour, minute, second, microsecond>>*)
(*             tz = the UTC offset in minutes of an aware value            *)
(*   date:     dt = <<year, month, day>>                                   *)
(*   str:      text = the characters                                       *)
(*   list:     a list that holds the one datetime dt, tz                   *)
(***************************************************************************)
Naive == [aware |-> FALSE, off |-> 0]
Offset(minutes) == [aware |-> TRUE, off |-> minutes]

PyDatetime(dt, tz) == [type |-> "datetime", dt |-> dt, tz |-> tz, text |-> << >>]
PyDate(d) == [type |-> "date", dt |-> d, tz |-> Naive, text |-> << >>]
PyStr(chars) == [type |-> "str", dt |-> << >>, tz |-> Naive, text |-> chars]
PyInt(i) == [type |-> "int", dt |-> << i >>, tz |-> Naive, text |-> << >>]
PyNone == [type |-> "NoneType", dt |-> << >>, tz |-> Naive, text |-> << >>]
PyList(dt, tz) == [type |-> "list", dt |-> dt, tz |-> tz, text |-> << >>]

DigitChars == << "0", "1", "2", "3", "4", "5", "6", "7", "8", "9" >>
PowersOfTen == << 1, 10, 100, 1000, 10000, 100000 >>

\* '%0<width>d' % k
Padded(k, width) ==
  [i \in 1..width |-> DigitChars[((k \div PowersOfTen[width - i + 1]) % 10) + 1]]

\* datetime.isoformat(): YYYY-MM-DDTHH:MM:SS[.ffffff][+HH:MM]
isoformat(dt, tz) ==
  Padded(dt[1], 4) \o << "-" >> \o Padded(dt[2], 2) \o << "-" >> \o Padded(dt[3], 2)
  \o << "T" >> \o Padded(dt[4], 2) \o << ":" >> \o Padded(dt[5], 2)
  \o << ":" >> \o Padded(dt[6], 2)
  \o (IF dt[7] # 0 THEN << "." >> \o Padded(dt[7], 6) ELSE << >>)
  \o (IF tz.aware
        THEN LET m == IF tz.off < 0 THEN 0 - tz.off ELSE tz.off
             IN << IF tz.off < 0 THEN "-" ELSE "+" >> \o Padded(m \div 60, 2)
                \o << ":" >> \o Padded(m % 60, 2)
        ELSE << >>)

\* date.isoformat(): YYYY-MM-DD
date_isoformat(d) ==
  Padded(d[1], 4) \o << "-" >> \o Padded(d[2], 2) \o << "-" >> \o Padded(d[3], 2)

\* a slip: the test is isinstance(obj, datetime.date), which a date passes too
json_encoder_AnyDate(obj) ==
  IF obj.type = "datetime" THEN PyStr(isoformat(obj.dt, obj.tz))
  ELSE IF obj.type = "date" THEN PyStr(date_isoformat(obj.dt))
  ELSE obj

json_encoder(obj) ==
  IF obj.type = "datetime" THEN PyStr(isoformat(obj.dt, obj.tz))
  ELSE obj

Datetimes ==
  { << y, mo, d, h, mi, sec, us >> :
      y \in {1, 1999, 2024}, mo \in {1, 12}, d \in {1, 31}, h \in {0, 23},
      mi \in {0, 59}, sec \in {0, 59}, us \in {0, 5, 123456} }
Timezones == { Naive, Offset(0), Offset(60), Offset(0 - 330) }

EncoderInputs ==
  { PyDatetime(dt, tz) : dt \in Datetimes, tz \in Timezones }
  \cup { PyList(dt, Naive) : dt \in { << 2024, 1, 31, 23, 59, 59, 0 >> } }
  \cup { PyDate(d) : d \in { << 2024, 1, 31 >>, << 1, 12, 1 >> } }
  \cup { PyStr(<< >>), PyStr(<< "a" >>), PyStr(date_isoformat(<< 2024, 1, 31 >>)),
         PyInt(0), PyInt(20240131), PyNone }

(***************************************************************************)
(* Constructor arguments                                                   *)
(***************************************************************************)
\* the accounts mapping has no entry at all
NoConfig == [accounts |-> << >>]

Regions == {None, "", "us-east-1", "eu-west-1"}
PlaceboModes == {Absent, "record", "playback", "bogus"}

KwargsSet ==
  { [config_given |-> g, config |-> c, aws_creds |-> k,
     placebo |-> p, placebo_dir |-> d, placebo_mode |-> m] :
      g \in BOOLEAN, c \in Configs, k \in {None, "ARG_KEYS"},
      p \in {None, "placebo"}, d \in {None, "/tmp/placebo"}, m \in PlaceboModes }

\* config=... is passed, or get_config() supplies the same choice of configurations
CtorInputs ==
  { [service_name |-> "ec2", region_name |-> r, account_id |-> a,
     kwargs |-> IF k.config_given THEN k ELSE [k EXCEPT !.config = NoConfig],
     global_config |-> IF k.config_given THEN NoConfig ELSE k.config,
     sts_ok |-> s] :
      r \in Regions, a \in AccountIds, k \in KwargsSet, s \in BOOLEAN }

\* the wrappers on which call is exercised: one per way a session is opened,
\* and one whose construction fails
CallFixtures ==
  { i \in CtorInputs :
      /\ i.region_name = "us-east-1" /\ i.account_id = KnownAccount
      /\ i.kwargs.config_given /\ i.kwargs.aws_creds = None
      /\ i.kwargs.placebo = None /\ i.kwargs.placebo_dir = None
      /\ i.kwargs.placebo_mode = Absent /\ i.sts_ok
      /\ DOMAIN i.kwargs.config.accounts[KnownAccount]
           \in { {"credentials"}, {"profile"}, {"role_arn", "external_id"}, {} } }

NoArgs ==
  [service_name |-> None, region_name |-> None, account_id |-> None,
   kwargs |-> [config_given |-> FALSE, config |-> NoConfig, aws_creds |-> None,
               placebo |-> None, placebo_dir |-> None, placebo_mode |-> Absent],
   global_config |-> NoConfig, sts_ok |-> FALSE]

NoError == Err(None, {})
NoPrev ==
  [valid |-> FALSE, query |-> None, pc |-> "idle", result |-> NoResult,
   error |-> NoError, events |-> << >>]

(***************************************************************************)
(* State                                                                   *)
(***************************************************************************)
VARIABLES
  ctor,      \* "none", "ok" or "raised": how construction ended
  ctor_error,\* the exception construction raised
  entry,     \* "AWSClient" or "get_awsclient": how the wrapper was made
  args,      \* the constructor arguments and the answers of the environment
  self,      \* the fields of the wrapper
  sdk,       \* the SDK calls construction made, in order
  pc,        \* "idle", "ATTEMPTING", "PAGINATING", "DONE", "returned", "raised"
  op_name,   \* the arguments of the call in progress
  query,
  params,
  backing,   \* the answers of the service to this call, as far as known
  n,         \* how many of them the call has consumed
  data,      \* the local variable data of call
  events,    \* what the call did, in order
  result,    \* the value call returned
  error,     \* the exception call raised
  replay,    \* the service answers this call as it answered the previous one
  twin,      \* ... or so, but for the last answer (see TwinAnswers)
  prev,      \* how the previous call ended, kept when replay or twin holds
  obj,       \* the value last handed to json_encoder
  encoded    \* what json_encoder returned for it

vars == << ctor, ctor_error, entry, args, self, sdk, pc, op_name, query, params,
           backing, n, data, events, result, error, replay, twin, prev, obj, encoded >>

callvars == << pc, op_name, query, params, backing, n, data, events, result,
               error, replay, twin, prev >>
ctorvars == << ctor, ctor_error, entry, args, self, sdk >>
encvars == << obj, encoded >>

Init ==
  /\ ctor = "none" /\ ctor_error = None /\ entry = None
  /\ args = NoArgs /\ self = NoSelf /\ sdk = << >>
  /\ pc = "idle" /\ op_name = None /\ query = None /\ params = None
  /\ backing = << >> /\ n = 0 /\ data = NoResult /\ events = << >>
  /\ result = NoResult /\ error = NoError /\ replay = FALSE /\ twin = FALSE /\ prev = NoPrev
  /\ obj = PyNone /\ encoded = PyNone

(***************************************************************************)
(* Construction                                                            *)
(***************************************************************************)
Constructed(i, how, r) ==
  /\ ctor' = r.status
  /\ ctor_error' = r.error
  /\ entry' = how
  /\ args' = i
  /\ self' = r.self
  /\ sdk' = r.sdk
  /\ UNCHANGED callvars
  /\ UNCHANGED encvars

\* AWSClient(service_name, region_name, account_id, **kwargs)
NewAWSClient(inputs) ==
  /\ ctor = "none"
  /\ \E i \in inputs :
       Constructed(i, "AWSClient",
                   AWSClient_init(i.service_name, i.region_name, i.account_id,
                                  i.kwargs, i.global_config, i.sts_ok))

\* get_awsclient(service_name, region_name, account_id, **kwargs)
GetAwsclient(inputs) ==
  /\ ctor = "none"
  /\ \E i \in inputs :
       Constructed(i, "get_awsclient",
                   get_awsclient(i.service_name, i.region_name, i.account_id,
                                 i.kwargs, i.global_config, i.sts_ok))

(***************************************************************************)
(* The answers of the service from one call to the next                    *)
(***************************************************************************)
Reruns == {"fresh", "replay", "twin"}

\* the answers a call consumed
Trace == SubSeq(backing, 1, n)

\* the client errors the retry loop names as ignorable
IgnorableErrors ==
  { Err("ClientError", {m}) : m \in {"AccessDenied", "NoSuchTagSet", "Topic does not exist"} }

\* the answers of a twin run of a non-paginated operation: as answered before,
\* except that a last answer "succeeded with empty data" becomes an ignorable
\* error, and a last answer that was an ignorable error becomes that success
TwinAnswers(op, answered) ==
  IF can_paginate(op) \/ answered = << >> THEN {}
  ELSE LET last == answered[Len(answered)]
           before == SubSeq(answered, 1, Len(answered) - 1)
       IN IF last = Ok(EmptyMap) THEN { Append(before, e) : e \in IgnorableErrors }
          ELSE IF last \in IgnorableErrors THEN { Append(before, Ok(EmptyMap)) }
          ELSE {}

(***************************************************************************)
(* call(op_name, query, **kwargs)                                          *)
(***************************************************************************)
\* a slip: the query is compiled where it is applied, after the operation ran
CallStart_CompilesLate(op, q, kw, rp) ==
  /\ ctor = "ok"
  /\ pc \in {"idle", "returned", "raised"}
  /\ rp = "replay" => (pc # "idle" /\ op = op_name /\ kw = params)
  /\ rp = "twin" => (/\ pc = "returned" /\ op = op_name /\ kw = params /\ q = query
                     /\ TwinAnswers(op, Trace) # {})
  /\ op_name' = op /\ query' = q /\ params' = kw
  /\ replay' = (rp = "replay")
  /\ twin' = (rp = "twin")
  /\ prev' = IF rp # "fresh"
               THEN [valid |-> TRUE, query |-> query, pc |-> pc,
                     result |-> result, error |-> error, events |-> events]
               ELSE NoPrev
  /\ backing' \in (CASE rp = "replay" -> { backing }
                    [] rp = "twin"   -> TwinAnswers(op, Trace)
                    [] OTHER         -> { << >> })
  /\ n' = 0
  /\ result' = NoResult
  /\ IF can_paginate(op)
       THEN /\ pc' = "PAGINATING"
            /\ error' = NoError
            /\ data' = NoResult
            /\ events' = << "can_paginate", "get_paginator", "paginate" >>
     ELSE /\ pc' = "ATTEMPTING"
          /\ error' = NoError
          /\ data' = EmptyMap
          /\ events' = << "can_paginate", "getattr" >>
  /\ UNCHANGED ctorvars
  /\ UNCHANGED encvars

\* lines 154-164: compile the query, pick the paginated or the retry path
\*   rp: what the service will answer: "fresh" (anything), "replay" (what it
\*   answered to the previous call) or "twin" (see TwinAnswers)
CallStart(op, q, kw, rp) ==
  /\ ctor = "ok"
  /\ pc \in {"idle", "returned", "raised"}
  /\ rp = "replay" => (pc # "idle" /\ op = op_name /\ kw = params)
  /\ rp = "twin" => (/\ pc = "returned" /\ op = op_name /\ kw = params /\ q = query
                     /\ TwinAnswers(op, Trace) # {})
  /\ op_name' = op /\ query' = q /\ params' = kw
  /\ replay' = (rp = "replay")
  /\ twin' = (rp = "twin")
  /\ prev' = IF rp # "fresh"
               THEN [valid |-> TRUE, query |-> query, pc |-> pc,
                     result |-> result, error |-> error, events |-> events]
               ELSE NoPrev
  /\ backing' \in (CASE rp = "replay" -> { backing }
                    [] rp = "twin"   -> TwinAnswers(op, Trace)
                    [] OTHER         -> { << >> })
  /\ n' = 0
  /\ result' = NoResult
  /\ IF Truthy(q) /\ ~compile_ok(q)
       THEN /\ pc' = "raised"
            /\ error' = Err("ParseError", {})
            /\ data' = NoResult
            /\ events' = << "jmespath.compile" >>
     ELSE IF can_paginate(op)
       THEN /\ pc' = "PAGINATING"
            /\ error' = NoError
            /\ data' = NoResult
            /\ events' = (IF Truthy(q) THEN << "jmespath.compile" >> ELSE << >>)
                         \o << "can_paginate", "get_paginator", "paginate" >>
     ELSE /\ pc' = "ATTEMPTING"
          /\ error' = NoError
          /\ data' = EmptyMap
          /\ events' = (IF Truthy(q) THEN << "jmespath.compile" >> ELSE << >>)
                       \o << "can_paginate", "getattr" >>
  /\ UNCHANGED ctorvars
  /\ UNCHANGED encvars

Call == \E op \in Ops, q \in Queries, kw \in Params, rp \in Reruns :
          CallStart(op, q, kw, rp)

\* the answer of the service to request number n+1 of this call
Answers(fresh) == IF n < Len(backing) THEN { backing[n + 1] } ELSE fresh

\* lines 165-180: one iteration of the while loop
Attempt ==
  /\ pc = "ATTEMPTING"
  /\ n < MaxAttempts
  /\ \E o \in Answers(OpOutcomes) :
       LET b == LoopBody(o, data)
       IN /\ backing' = IF n < Len(backing) THEN backing ELSE Append(backing, o)
          /\ n' = n + 1
          /\ data' = b.data
          /\ events' = events \o << "op" >>
                       \o (IF b.sleep THEN << "time.sleep" >> ELSE << >>)
          /\ pc' = IF b.done THEN "DONE" ELSE "ATTEMPTING"
  /\ UNCHANGED << op_name, query, params, result, error, replay, twin, prev >>
  /\ UNCHANGED ctorvars
  /\ UNCHANGED encvars

\* line 160: build_full_result requests the next page
FetchPage ==
  /\ pc = "PAGINATING"
  /\ n < MaxPages
  /\ \E o \in Answers(PageOutcomes(n + 1 = MaxPages)) :
       LET pages == SubSeq(backing, 1, n) \o << o >>
       IN /\ backing' = IF n < Len(backing) THEN backing ELSE Append(backing, o)
          /\ n' = n + 1
          /\ events' = Append(events, "next_page")
          /\ IF o.kind = "err"
               THEN pc' = "raised" /\ error' = o /\ data' = data
             ELSE IF o.more
               THEN pc' = "PAGINATING" /\ error' = error /\ data' = data
             ELSE pc' = "DONE" /\ error' = error /\ data' = build_full_result(pages)
  /\ UNCHANGED << op_name, query, params, result, replay, twin, prev >>
  /\ UNCHANGED ctorvars
  /\ UNCHANGED encvars

\* a slip: the client handle is created anew when a call returns
Return_RecreatesClient ==
  /\ pc = "DONE"
  /\ result' = ApplyQuery(query, data)
  /\ events' = IF Truthy(query) THEN Append(events, "query.search") ELSE events
  /\ pc' = "returned"
  /\ sdk' = Append(sdk, Ev("session.client", ClientHandle(self).service,
                           ClientHandle(self).region))
  /\ UNCHANGED << op_name, query, params, backing, n, data, error, replay, twin, prev >>
  /\ UNCHANGED << ctor, ctor_error, entry, args, self >>
  /\ UNCHANGED encvars

\* lines 181-183: apply the query and return
Return ==
  /\ pc = "DONE"
  /\ result' = ApplyQuery(query, data)
  /\ events' = IF Truthy(query) THEN Append(events, "query.search") ELSE events
  /\ pc' = "returned"
  /\ UNCHANGED << op_name, query, params, backing, n, data, error, replay, twin, prev >>
  /\ UNCHANGED ctorvars
  /\ UNCHANGED encvars

(***************************************************************************)
(* json_encoder(obj)                                                       *)
(***************************************************************************)
Encode ==
  /\ \E v \in EncoderInputs :
       /\ obj' = v
       /\ encoded' = json_encoder(v)
  /\ UNCHANGED ctorvars
  /\ UNCHANGED callvars

(***************************************************************************)
(* Specifications                                                          *)
(***************************************************************************)
\* the life of one wrapper: construction, then any number of calls
Next ==
  \/ NewAWSClient(CallFixtures)
  \/ Call
  \/ Attempt
  \/ FetchPage
  \/ Return

Spec == Init /\ [][Next]_vars

\* construction alone, over every combination of constructor arguments
NextCtor ==
  \/ NewAWSClient(CtorInputs)
  \/ GetAwsclient(CtorInputs)

SpecCtor == Init /\ [][NextCtor]_vars

\* the encoding helper alone, over the values of EncoderInputs
NextEncoder == Encode

SpecEncoder == Init /\ [][NextEncoder]_vars

(***************************************************************************)
(* Vocabulary of the properties                                            *)
(***************************************************************************)
Count(seq, e) == Cardinality({ i \in 1..Len(seq) : seq[i] = e })

IsOk(o) == o.kind = "ok"
IsErr(o) == o.kind = "err"
\* a provider client error whose message contains 'Throttling'
IsThrottle(o) == IsErr(o) /\ o.cls = "ClientError" /\ "Throttling" \in o.msg
\* an error whose message names an ignorable condition and not 'Throttling'
IsIgnorable(o) ==
  /\ IsErr(o)
  /\ o.msg \cap {"AccessDenied", "NoSuchTagSet", "Topic does not exist"} # {}
  /\ "Throttling" \notin o.msg
\* a client error with none of the four substrings, or any other exception type
IsUnmatched(o) ==
  /\ IsErr(o)
  /\ \/ o.cls # "ClientError"
     \/ o.msg \cap {"Throttling", "AccessDenied", "NoSuchTagSet",
                    "Topic does not exist"} = {}

\* a call on the retry path / the paginated path has passed the query compilation
InRetryPath == pc \in {"ATTEMPTING", "DONE", "returned"} /\ ~can_paginate(op_name)
InPagedPath == pc \in {"PAGINATING", "DONE", "returned", "raised"}
               /\ can_paginate(op_name) /\ error.cls # "ParseError"

\* the invocations of the operation and the sleeps of a call, in order
IsOpOrSleep(e) == e \in {"op", "time.sleep"}
OpsAndSleeps == SelectSeq(events, IsOpOrSleep)
\* op, sleep, op, sleep, ..., op: k invocations with a sleep between them
Alternating(k) == [i \in 1..(2 * k - 1) |-> IF i % 2 = 1 THEN "op" ELSE "time.sleep"]

(***************************************************************************)
(* C1  (the claim as stated) On the retry path, an attempt that raises an  *)
(* unmatched error (a client error with none of the four substrings, or    *)
(* another exception type) is the last attempt: the loop is DONE, the      *)
(* operation is not invoked again, no sleep follows, nothing is raised,    *)
(* and call returns the initial empty result.                              *)
(***************************************************************************)
C1_UnmatchedErrorEndsLoop ==
  InRetryPath =>
    \A k \in 1..n :
      IsUnmatched(Trace[k]) =>
        /\ k = n
        /\ pc \in {"DONE", "returned"}
        /\ Count(events, "op") = k
        /\ (k = 1 => Count(events, "time.sleep") = 0)
        /\ data = EmptyMap
        /\ pc = "returned" => result = ApplyQuery(query, EmptyMap)

(***************************************************************************)
(* C2  On the retry path, when the first N attempts raise a throttling     *)
(* client error and attempt N+1 succeeds, the loop ends there: the         *)
(* operation was invoked exactly N+1 times with exactly one sleep after    *)
(* each throttled attempt, and call returns the data of the successful     *)
(* attempt (through the query, when one was given).  While every attempt   *)
(* so far was throttled the loop goes on.                                  *)
(***************************************************************************)
C2_ThrottledThenSuccess ==
  InRetryPath =>
    /\ \A k \in 1..n :
         (IsOk(Trace[k]) /\ \A j \in 1..(k - 1) : IsThrottle(Trace[j])) =>
           /\ n = k
           /\ pc \in {"DONE", "returned"}
           /\ OpsAndSleeps = Alternating(k)
           /\ data = Trace[k].data
           /\ pc = "returned" =>
                result = (IF Truthy(query) THEN search(query, Trace[k].data)
                                           ELSE Trace[k].data)
    /\ (\A j \in 1..n : IsThrottle(Trace[j])) =>
         /\ pc = "ATTEMPTING"
         /\ Count(events, "op") = n /\ Count(events, "time.sleep") = n

C2_Witness ==
  /\ InRetryPath /\ pc = "returned" /\ query = None
  /\ n = 3 /\ IsThrottle(Trace[1]) /\ IsThrottle(Trace[2]) /\ IsOk(Trace[3])
  /\ result = MapVal(TRUE, << "a", "b" >>)
  /\ OpsAndSleeps = << "op", "time.sleep", "op", "time.sleep", "op" >>

(***************************************************************************)
(* C3  On the retry path, an attempt that raises an error whose message    *)
(* contains 'AccessDenied', 'NoSuchTagSet' or 'Topic does not exist' and   *)
(* not 'Throttling' is the last attempt: the loop is done, nothing is      *)
(* raised, and the value before the query is the empty mapping, however    *)
(* many attempts came before.                                              *)
(***************************************************************************)
C3_IgnorableErrorSwallowed ==
  InRetryPath =>
    \A k \in 1..n :
      IsIgnorable(Trace[k]) =>
        /\ k = n
        /\ pc \in {"DONE", "returned"}
        /\ error = NoError
        /\ data = EmptyMap
        /\ pc = "returned" =>
             result = (IF Truthy(query) THEN search(query, EmptyMap) ELSE EmptyMap)

C3_Witness ==
  /\ InRetryPath /\ pc = "returned" /\ n = 3
  /\ IsThrottle(Trace[1]) /\ IsThrottle(Trace[2])
  /\ Trace[3] = Err("ClientError", {"Topic does not exist"})
  /\ query = None /\ result = EmptyMap

(***************************************************************************)
(* C6  (the claim as stated) The only self-loop of the retry loop is the   *)
(* one taken on a throttling error: every attempt that ends otherwise      *)
(* leads to DONE, so the loop is still ATTEMPTING only while every attempt *)
(* so far was throttled.                                                   *)
(***************************************************************************)
C6_OnlyThrottlingLoops ==
  (pc = "ATTEMPTING" /\ ~can_paginate(op_name)) =>
    \A k \in 1..n : IsThrottle(Trace[k])

(***************************************************************************)
(* C7  On the paginated path the paginator is invoked exactly once, the    *)
(* operation itself never, and call returns the query applied to the       *)
(* items of all pages in order; an error raised while a page is fetched    *)
(* (throttling included) reaches the caller at once: no further page       *)
(* request, no sleep, no value returned.                                   *)
(***************************************************************************)
\* the number of items on the pages before page p
RECURSIVE ItemsBefore(_)
ItemsBefore(p) == IF p <= 1 THEN 0 ELSE ItemsBefore(p - 1) + Len(Trace[p - 1].data.v)

\* v holds the items of every fetched page, page after page
HoldsAllPages(v) ==
  /\ Len(v) = ItemsBefore(n + 1)
  /\ \A p \in 1..n : \A j \in 1..Len(Trace[p].data.v) :
       v[ItemsBefore(p) + j] = Trace[p].data.v[j]

C7_PaginatedPath ==
  InPagedPath =>
    /\ Count(events, "paginate") = 1
    /\ Count(events, "get_paginator") = 1
    /\ Count(events, "op") = 0
    /\ Count(events, "time.sleep") = 0
    /\ Count(events, "next_page") = n
    /\ pc \in {"DONE", "returned"} =>
         /\ \A p \in 1..n : Trace[p].kind = "page" /\ (Trace[p].more <=> p < n)
         /\ data.t = "map" /\ data.has /\ HoldsAllPages(data.v)
         /\ error = NoError
    /\ pc = "returned" =>
         result = (IF Truthy(query) THEN search(query, data) ELSE data)
    /\ \A k \in 1..n :
         IsErr(Trace[k]) =>
           /\ k = n
           /\ pc = "raised"
           /\ error = Trace[k]
           /\ result = NoResult

C7_Witness ==
  /\ InPagedPath /\ pc = "raised" /\ n = 2
  /\ Trace[1].kind = "page" /\ IsThrottle(Trace[2])
  /\ error = Trace[2] /\ result = NoResult

\* two pages were aggregated and queried
C7_WitnessPages ==
  /\ InPagedPath /\ pc = "returned" /\ n = 2 /\ query = "Items"
  /\ result = ListVal(<< "a", "b" >>)

(***************************************************************************)
(* C8  A call with a valid query q, answered by the service exactly as a   *)
(* preceding call of the same operation and parameters without a query,    *)
(* ends the same way: when that call returned v it returns q applied to v  *)
(* (also when v is the empty result a swallowed error left), when that     *)
(* call raised it raises the same error; and it makes the same number of   *)
(* operation invocations, page requests and sleeps.                        *)
(***************************************************************************)
C8_QueryIsPostProcess ==
  (/\ replay /\ prev.valid /\ ~Truthy(prev.query)
   /\ compile_ok(query) /\ pc \in {"returned", "raised"}) =>
    /\ pc = prev.pc
    /\ pc = "returned" => result = search(query, prev.result)
    /\ pc = "raised" => error = prev.error
    /\ Count(events, "op") = Count(prev.events, "op")
    /\ Count(events, "next_page") = Count(prev.events, "next_page")
    /\ Count(events, "time.sleep") = Count(prev.events, "time.sleep")

\* the queried call follows one whose result is the empty mapping of a swallowed error
C8_Witness ==
  /\ replay /\ prev.valid /\ prev.query = None /\ prev.result = EmptyMap
  /\ ~can_paginate(op_name) /\ pc = "returned" /\ query = "Items"
  /\ n = 2 /\ IsThrottle(Trace[1]) /\ IsIgnorable(Trace[2])
  /\ result = NullVal

(***************************************************************************)
(* Vocabulary of the construction properties                               *)
(***************************************************************************)
Constructing == ctor # "none"

\* the configuration the constructor reads
UsedConfig == IF args.kwargs.config_given THEN args.kwargs.config
                                          ELSE args.global_config
AccountConfigured == args.account_id \in DOMAIN UsedConfig.accounts
AccountRecord == IF AccountConfigured THEN UsedConfig.accounts[args.account_id]
                                      ELSE << >>
CredsPassed == args.kwargs.aws_creds # None

SdkEvents(name) == { i \in 1..Len(sdk) : sdk[i].ev = name }
AssumeRoleCalls == SdkEvents("sts.assume_role")
SessionsOpened == SdkEvents("boto3.Session")

\* the authentication mode the precedence order of the credential sources selects
ExpectedMode ==
  IF CredsPassed THEN "explicit argument"
  ELSE IF "credentials" \in DOMAIN AccountRecord THEN "config credentials"
  ELSE IF "profile" \in DOMAIN AccountRecord THEN "profile"
  ELSE IF "role_arn" \in DOMAIN AccountRecord THEN "role assumption"
  ELSE "ambient"

\* the authentication mode the SDK calls of the construction show
ModeUsed ==
  IF AssumeRoleCalls # {} THEN "role assumption"
  ELSE IF \E i \in SessionsOpened : sdk[i].a = "profile_name" THEN "profile"
  ELSE IF \E i \in SessionsOpened :
            sdk[i].a = "credentials" /\ sdk[i].b = args.kwargs.aws_creds
    THEN "explicit argument"
  ELSE IF \E i \in SessionsOpened :
            sdk[i].a = "credentials" /\ sdk[i].b = ConfigValue("credentials")
    THEN "config credentials"
  ELSE IF SessionsOpened # {} THEN "ambient"
  ELSE "none"

(***************************************************************************)
(* C4  (the claim as stated) For every combination of the four credential  *)
(* sources, construction uses exactly the source of highest precedence     *)
(* that is present: explicit argument > config credentials > profile >     *)
(* role assumption > ambient, and opens at most one session.               *)
(***************************************************************************)
C4_PrecedenceOrder ==
  (Constructing /\ AccountConfigured) =>
    /\ ModeUsed = ExpectedMode
    /\ Cardinality(SessionsOpened) <= 1
    /\ ctor = "ok" => Cardinality(SessionsOpened) = 1

(***************************************************************************)
(* C5  (the claim as stated) With no credentials passed and none of        *)
(* 'credentials', 'profile', 'role_arn' in the account record,             *)
(* construction succeeds, opens a session without explicit credentials     *)
(* and makes no role-assumption call.                                      *)
(***************************************************************************)
C5_AmbientFallback ==
  (/\ Constructing /\ AccountConfigured /\ ~CredsPassed
   /\ DOMAIN AccountRecord \cap {"credentials", "profile", "role_arn"} = {}) =>
    /\ ctor = "ok"
    /\ AssumeRoleCalls = {}
    /\ ModeUsed = "ambient"

(***************************************************************************)
(* C9  (the claim as stated) Construction for an account_id without an     *)
(* entry in the accounts mapping fails and creates no client handle,       *)
(* whatever the other arguments are.                                       *)
(***************************************************************************)
C9_MissingAccountAlwaysFails ==
  (Constructing /\ ~AccountConfigured) =>
    /\ ctor = "raised"
    /\ SdkEvents("session.client") = {}
    /\ ~self.client.created

(***************************************************************************)
(* C9  (amended) Construction for an account_id without an entry in the    *)
(* accounts mapping fails with a KeyError, before any SDK call and without *)
(* a client handle, when no aws_creds argument is passed; when aws_creds   *)
(* is passed the accounts mapping is not read, and the session is opened   *)
(* with the passed credentials and the client handle is created.           *)
(***************************************************************************)
C9_MissingAccountFailsWithoutCreds ==
  (Constructing /\ ~AccountConfigured) =>
    IF ~CredsPassed
      THEN /\ ctor = "raised" /\ ctor_error = "KeyError"
           /\ sdk = << >>
           /\ ~self.client.created
      ELSE /\ ctor = "ok"
           /\ ModeUsed = "explicit argument"
           /\ self.client.created

C9_Witness ==
  /\ ctor = "raised" /\ ctor_error = "KeyError" /\ ~AccountConfigured
  /\ args.account_id = UnknownAccount /\ ~CredsPassed
  /\ args.kwargs.placebo # None /\ sdk = << >>

(***************************************************************************)
(* C10  (the claim as stated) One construction calls sts.assume_role at    *)
(* most once, and only when role assumption is the selected mode; the      *)
(* ExternalId is passed exactly when an external_id was resolved; when     *)
(* the call fails construction fails, the call is not repeated and no      *)
(* session, harness attachment or client handle follows.                   *)
(***************************************************************************)
C10_RoleAssumption ==
  Constructing =>
    /\ Cardinality(AssumeRoleCalls) <= 1
    /\ AssumeRoleCalls # {} => ExpectedMode = "role assumption" /\ AccountConfigured
    /\ \A i \in AssumeRoleCalls :
         /\ sdk[i].b # Absent <=> "external_id" \in DOMAIN AccountRecord
         /\ sdk[i].b # Absent => sdk[i].b = AccountRecord["external_id"]
    /\ (ctor = "raised" /\ AssumeRoleCalls # {}) =>
         /\ SessionsOpened = {}
         /\ SdkEvents("placebo.attach") = {}
         /\ SdkEvents("session.client") = {}
         /\ ~self.client.created

(***************************************************************************)
(* Vocabulary of the harness properties                                    *)
(***************************************************************************)
HarnessSupplied == args.kwargs.placebo # None /\ args.kwargs.placebo_dir # None
Attachments == SdkEvents("placebo.attach")
Recordings == SdkEvents("pill.record")
Playbacks == SdkEvents("pill.playback")
ClientCreations == SdkEvents("session.client")

C12_ResolvedProperties ==
  ctor = "ok" =>
    /\ ~(self.profile # None /\ self.role_arn # None)
    /\ (/\ self.aws_creds = None
        /\ {"profile", "role_arn"} \subseteq DOMAIN AccountRecord) =>
         self.profile = AccountRecord["profile"] /\ self.role_arn = None
    /\ self.external_id # None => self.role_arn # None
    /\ (CredsPassed \/ "credentials" \in DOMAIN AccountRecord) =>
         /\ self.aws_creds # None
         /\ self.profile = None /\ self.role_arn = None /\ self.external_id = None

\* config credentials win over a record that also holds the three other keys
C12_Witness ==
  /\ ctor = "ok" /\ ~CredsPassed /\ DOMAIN AccountRecord = ConfigKeys
  /\ self.aws_creds = ConfigValue("credentials")
  /\ self.profile = None /\ self.role_arn = None /\ self.external_id = None

(***************************************************************************)
(* C13  The client handle is created exactly once, by the constructor:     *)
(* once the wrapper is constructed, no step of any call, however it ends,  *)
(* changes the client handle, the resolved credentials, profile, role_arn, *)
(* external_id, service_name, region_name or account_id, and none opens a  *)
(* session, assumes a role or creates a client.                            *)
(***************************************************************************)
C13_CallLeavesWrapperUnchanged ==
  /\ [](ctor = "ok" =>
          /\ self.client.created
          /\ Cardinality(SdkEvents("session.client")) = 1
          /\ Cardinality(SdkEvents("boto3.Session")) = 1
          /\ Cardinality(SdkEvents("sts.assume_role")) <= 1)
  /\ [][ctor = "ok" =>
          /\ ctor' = "ok"
          /\ self'.client = self.client
          /\ self'.aws_creds = self.aws_creds
          /\ self'.profile = self.profile
          /\ self'.role_arn = self.role_arn
          /\ self'.external_id = self.external_id
          /\ self'.service_name = self.service_name
          /\ self'.region_name = self.region_name
          /\ self'.account_id = self.account_id
          /\ sdk' = sdk]_vars

\* a second call has returned after throttling retries, on a wrapper that assumed a role
C13_Witness ==
  /\ ctor = "ok" /\ self.role_arn # None /\ self.client.created
  /\ prev.valid /\ pc = "returned" /\ n = 3 /\ Count(events, "time.sleep") = 2
  /\ Cardinality(SdkEvents("session.client")) = 1
  /\ Cardinality(SdkEvents("sts.assume_role")) = 1

(***************************************************************************)
(* C14  Two runs of call on a non-paginated operation with the same        *)
(* arguments, answered alike except that the last answer is a success      *)
(* with empty data (the empty mapping) in one and an ignorable client      *)
(* error in the other, look the same to the caller: the second run raises  *)
(* nothing, ends once its answers are consumed, and returns the value the  *)
(* first run returned, with and without a query.                           *)
(***************************************************************************)
C14_EmptyAndIgnorableAlike ==
  twin =>
    /\ prev.valid /\ prev.pc = "returned" /\ prev.query = query
    /\ pc # "raised" /\ error = NoError
    /\ n <= Len(backing)
    /\ n = Len(backing) => pc \in {"DONE", "returned"}
    /\ pc = "returned" => (n = Len(backing) /\ result = prev.result)

\* a success with empty data, queried, then its twin that ended in AccessDenied
C14_Witness ==
  /\ twin /\ pc = "returned" /\ query = "Items" /\ n = 2
  /\ IsThrottle(Trace[1]) /\ Trace[2] = Err("ClientError", {"AccessDenied"})
  /\ result = NullVal /\ prev.result = NullVal

\* the twin of a run that ended in an ignorable error: a success with empty data
C14_WitnessReverse ==
  /\ twin /\ pc = "returned" /\ query = None /\ n = 1
  /\ Trace[1] = Ok(EmptyMap) /\ result = EmptyMap /\ prev.result = EmptyMap

(***************************************************************************)
(* C15  A wrapper made by get_awsclient with the region '' has region_name *)
(* None and its client handle is created with no explicit region; with a   *)
(* non-empty region, region_name and the region of the client creation     *)
(* are that region.                                                        *)
(***************************************************************************)
C15_EmptyRegionIsNoRegion ==
  (ctor = "ok" /\ entry = "get_awsclient") =>
    /\ Cardinality(ClientCreations) = 1
    /\ args.region_name = "" =>
         /\ self.region_name = None
         /\ self.client.region = None
         /\ \A i \in ClientCreations : sdk[i].b = None
    /\ args.region_name \notin {"", None} =>
         /\ self.region_name = args.region_name
         /\ self.client.region = args.region_name
         /\ \A i \in ClientCreations : sdk[i].b = args.region_name

C15_Witness ==
  /\ ctor = "ok" /\ entry = "get_awsclient" /\ args.region_name = ""
  /\ self.region_name = None /\ self.client.created /\ self.client.region = None
  /\ sdk[Len(sdk)] = Ev("session.client", "ec2", None)

(***************************************************************************)
(* C16  json_encoder maps a datetime to its ISO-8601 string: a str that    *)
(* reads YYYY-MM-DDTHH:MM:SS, then .ffffff when the microsecond is not 0,  *)
(* then +HH:MM or -HH:MM when the value is aware, and whose numbers are    *)
(* the fields of the value; every other value is returned as it is.        *)
(***************************************************************************)
\* the number the digits text[a..b] write, or -1 when one of them is no digit
DigitOf(c) == IF \E k \in 0..9 : DigitChars[k + 1] = c
                THEN CHOOSE k \in 0..9 : DigitChars[k + 1] = c ELSE 0 - 1
RECURSIVE Number(_, _, _)
Number(text, a, b) ==
  IF a > b THEN 0
  ELSE IF DigitOf(text[b]) < 0 \/ Number(text, a, b - 1) < 0 THEN 0 - 1
  ELSE 10 * Number(text, a, b - 1) + DigitOf(text[b])

IsIso8601Of(text, dt, tz) ==
  LET frac == IF dt[7] # 0 THEN 7 ELSE 0
      zone == IF tz.aware THEN 6 ELSE 0
      z == 19 + frac
  IN /\ Len(text) = 19 + frac + zone
     /\ Number(text, 1, 4) = dt[1] /\ text[5] = "-"
     /\ Number(text, 6, 7) = dt[2] /\ text[8] = "-"
     /\ Number(text, 9, 10) = dt[3] /\ text[11] = "T"
     /\ Number(text, 12, 13) = dt[4] /\ text[14] = ":"
     /\ Number(text, 15, 16) = dt[5] /\ text[17] = ":"
     /\ Number(text, 18, 19) = dt[6]
     /\ dt[7] # 0 => (text[20] = "." /\ Number(text, 21, 26) = dt[7])
     /\ tz.aware =>
          /\ text[z + 1] \in {"+", "-"} /\ text[z + 4] = ":"
          /\ Number(text, z + 2, z + 3) >= 0 /\ Number(text, z + 5, z + 6) \in 0..59
          /\ (IF text[z + 1] = "-" THEN 0 - 1 ELSE 1)
               * (60 * Number(text, z + 2, z + 3) + Number(text, z + 5, z + 6)) = tz.off

C16_EncoderIsoOrIdentity ==
  IF obj.type = "datetime"
    THEN /\ encoded.type = "str"
         /\ IsIso8601Of(encoded.text, obj.dt, obj.tz)
    ELSE encoded = obj

\* an aware datetime with microseconds, west of UTC, was encoded
C16_Witness ==
  /\ obj = PyDatetime(<< 1999, 12, 31, 23, 59, 59, 5 >>, Offset(0 - 330))
  /\ encoded.type = "str" /\ Len(encoded.text) = 32
  /\ SubSeq(encoded.text, 20, 32) =
       << ".", "0", "0", "0", "0", "0", "5", "-", "0", "5", ":", "3", "0" >>

\* a date, which is no datetime, came back unchanged
C16_WitnessOther == obj = PyDate(<< 2024, 1, 31 >>) /\ encoded = obj

(***************************************************************************)
(* C17  On the retry path a client error whose message contains            *)
(* 'Throttling' together with 'AccessDenied', 'NoSuchTagSet' or 'Topic     *)
(* does not exist' is handled as throttling: a sleep follows the attempt,  *)
(* the loop is not ended by it and data stays as it was.                   *)
(***************************************************************************)
IgnorableNames == {"AccessDenied", "NoSuchTagSet", "Topic does not exist"}

\* the place of invocation number k among the invocations and sleeps
OpIndex(k) ==
  CHOOSE j \in 1..Len(OpsAndSleeps) :
    /\ OpsAndSleeps[j] = "op"
    /\ Cardinality({ i \in 1..j : OpsAndSleeps[i] = "op" }) = k

C17_ThrottlingTestedFirst ==
  InRetryPath =>
    \A k \in 1..n :
      (/\ IsErr(Trace[k]) /\ Trace[k].cls = "ClientError"
       /\ "Throttling" \in Trace[k].msg
       /\ Trace[k].msg \cap IgnorableNames # {}) =>
        /\ Count(events, "op") = n
        /\ OpIndex(k) < Len(OpsAndSleeps)
        /\ OpsAndSleeps[OpIndex(k) + 1] = "time.sleep"
        /\ k = n => (pc = "ATTEMPTING" /\ data = EmptyMap)

\* throttled with a message that also names AccessDenied, then a success
C17_Witness ==
  /\ InRetryPath /\ pc = "returned" /\ n = 2 /\ query = None
  /\ Trace[1] = Err("ClientError", {"Throttling", "AccessDenied"})
  /\ IsOk(Trace[2]) /\ result = MapVal(TRUE, << "a", "b" >>)
  /\ OpsAndSleeps = << "op", "time.sleep", "op" >>

(***************************************************************************)
(* C18  On the retry path only a provider client error is slept on and     *)
(* retried as throttling: an exception of another type whose message       *)
(* contains 'Throttling' is the last attempt, no sleep follows it, and     *)
(* call returns the empty result; there are as many sleeps as throttling   *)
(* client errors.                                                          *)
(***************************************************************************)
C18_OnlyClientErrorsThrottle ==
  InRetryPath =>
    /\ Count(events, "time.sleep") =
         Cardinality({ k \in 1..n : IsThrottle(Trace[k]) })
    /\ \A k \in 1..n :
         (/\ IsErr(Trace[k]) /\ Trace[k].cls # "ClientError"
          /\ "Throttling" \in Trace[k].msg) =>
           /\ k = n
           /\ pc \in {"DONE", "returned"}
           /\ Count(events, "op") = k
           /\ OpsAndSleeps[Len(OpsAndSleeps)] = "op"
           /\ data = EmptyMap
           /\ pc = "returned" =>
                result = (IF Truthy(query) THEN search(query, EmptyMap) ELSE EmptyMap)

\* a throttling client error was slept on, then another exception type named Throttling
C18_Witness ==
  /\ InRetryPath /\ pc = "returned" /\ n = 2 /\ query = None
  /\ IsThrottle(Trace[1]) /\ Trace[2] = Err("Exception", {"Throttling"})
  /\ OpsAndSleeps = << "op", "time.sleep", "op" >> /\ result = EmptyMap

(***************************************************************************)
(* C19  call compiles the query first: a call given a query expression     *)
(* that does not compile raises the compile error having asked nothing of  *)
(* the client (no can_paginate, no paginator, no invocation, no page       *)
(* request) and without a sleep; a query that compiles is compiled before  *)
(* can_paginate is asked.  (None and '' are no query: nothing is           *)
(* compiled.)                                                              *)
(***************************************************************************)
C19_QueryCompiledFirst ==
  pc # "idle" =>
    /\ (Truthy(query) /\ ~compile_ok(query)) =>
         /\ pc = "raised" /\ error = Err("ParseError", {})
         /\ events = << "jmespath.compile" >>
         /\ n = 0 /\ result = NoResult
    /\ (Truthy(query) /\ compile_ok(query)) =>
         /\ events[1] = "jmespath.compile" /\ events[2] = "can_paginate"
         /\ Count(events, "jmespath.compile") = 1
    /\ ~Truthy(query) => Count(events, "jmespath.compile") = 0

\* an invalid query on a paginated operation, after a call that fetched pages
C19_Witness ==
  /\ pc = "raised" /\ query = BadQuery /\ can_paginate(op_name)
  /\ error = Err("ParseError", {}) /\ events = << "jmespath.compile" >>
  /\ replay /\ prev.pc = "returned" /\ Len(backing) = 2 /\ n = 0

====
